---- MODULE Spec2Model ----
(***************************************************************************)
(* Model of SimPEG/electromagnetics/static/resistivity/simulation.py:      *)
(* BaseDCSimulation (factorization / Jacobian / JtJ-diagonal caches, the   *)
(* mini-survey data transforms, the survey traversal of Jvec and _Jtvec)   *)
(* and the getA of Simulation3DCellCentered and Simulation3DNodal.         *)
(*                                                                         *)
(* An optional Python value is a tuple: <<>> is None, <<x>> is x.          *)
(***************************************************************************)
EXTENDS Integers, Sequences, FiniteSets, TLC

\* ------------------------------------------------------------------ bounds
\* Models 1..NModels are regular; model 0 is a degenerate model whose system
\* matrix cannot be factorized (the solver raises).
NModels == 2
\* Rows (data) and columns (model parameters) of the dense Jacobian.
NData == 2
NParam == 2

None == <<>>
Some(x) == <<x>>

Models == 1..NModels
Degenerate == {0}
AllModels == Degenerate \cup Models
\* The diagonals of the weighting matrices W a caller passes: diag(1, 2, ..)
\* and diag(2, 2, ..).
Weights == {[i \in 1..NData |-> i], [i \in 1..NData |-> 2]}

VARIABLES
  \* ---- the simulation instance (BaseDCSimulation)
  model,        \* self.model: None or the model last assigned
  Ainv,         \* self.Ainv: None or [A |-> model of the factorized matrix, clean |-> released?]
  nLive,        \* factorizations created by self.solver(A) and not yet released by clean()
  Jmatrix,      \* self._Jmatrix: None or the Jacobian (by what it was computed from)
  gtgdiag,      \* self.gtgdiag: None or [J, W, diag]
  storeJ,       \* self.storeJ
  mini_survey,  \* self._mini_survey is not None
  survey,       \* the object self.survey refers to: "original" or "mini"
  made,         \* the fields objects sim.fields() has returned to the caller so far
  ret,          \* the last call and what it returned
  \* ---- one application of the mini-survey data transforms
  invs, dipoles, nMini, arg, out, pc,
  \* ---- one traversal of the survey by Jvec / _Jtvec(v=None)
  source_list, mini_source_list, JvBlocks, JtBlocks,
  \* ---- one call of getA
  formulation, bc_type, Aprod, Amat

simVars == <<model, Ainv, nLive, Jmatrix, gtgdiag, storeJ, mini_survey, survey, made, ret>>
miniVars == <<invs, dipoles, nMini, arg, out, pc>>
walkVars == <<source_list, mini_source_list, JvBlocks, JtBlocks>>
matVars == <<formulation, bc_type, Aprod, Amat>>
vars == <<simVars, miniVars, walkVars, matVars>>

\* ------------------------------------------------- the simulation's state
\* The mutable attributes of the instance, passed through the method models.
Self ==
  [model |-> model, Ainv |-> Ainv, nLive |-> nLive, Jmatrix |-> Jmatrix,
   gtgdiag |-> gtgdiag, survey |-> survey]

\* BaseDCSimulation.deleteTheseOnModelUpdate: the cache attributes that are set.
deleteTheseOnModelUpdate(s) ==
  (IF s.Jmatrix # None THEN {"_Jmatrix"} ELSE {})
    \cup (IF s.gtgdiag # None THEN {"gtgdiag"} ELSE {})

\* self.model = m: the model observer of the base class deletes the attributes
\* deleteTheseOnModelUpdate names when the value changes.
set_model(s, m) ==
  LET del == IF s.model = Some(m) THEN {} ELSE deleteTheseOnModelUpdate(s)
  IN [s EXCEPT !.model = Some(m),
               !.Jmatrix = IF "_Jmatrix" \in del THEN None ELSE @,
               !.gtgdiag = IF "gtgdiag" \in del THEN None ELSE @]

\* fields, lines 46-47: release the factorization held, if any.
fields_release_skipped(s) == s

fields_release(s) ==
  IF s.Ainv = None THEN s
  ELSE [s EXCEPT !.Ainv = Some([s.Ainv[1] EXCEPT !.clean = TRUE]),
                 !.nLive = IF s.Ainv[1].clean THEN @ ELSE @ - 1]

\* self.solver(A) raises on a matrix it cannot factorize.
solver_fails(m) == m \in Degenerate

\* BaseDCSimulation.fields(m).  Returns [s, ok, f].
fields(s, m) ==
  LET s1 == IF m # None THEN [set_model(s, m[1]) EXCEPT !.Jmatrix = None] ELSE s
      s2 == fields_release(s1)
  IN IF s2.model = None \/ solver_fails(s2.model[1])
       THEN [s |-> s2, ok |-> FALSE, f |-> None]
       ELSE LET f == [m |-> s2.model[1]]
            IN [s |-> [s2 EXCEPT !.Ainv = Some([A |-> s2.model[1], clean |-> FALSE]),
                                 !.nLive = @ + 1],
                ok |-> TRUE, f |-> Some(f)]

\* self.Ainv * x needs a factorization that has not been released.
Ainv_usable(s) == s.Ainv # None /\ ~s.Ainv[1].clean

\* ----------------------------------------------------- Jacobian and JtJ
\* A Jacobian is recorded by what it was built from: the model whose material
\* derivatives (getADeriv) were used, and whether the fields and the
\* factorization used were those of that model (mixed otherwise).  Entry
\* (i, k) of the dense matrix built from them:
Jentry(J, i, k) == J.m * i + k + (IF J.mixed THEN 1 ELSE 0)

\* The Jacobian of model m: built with model m, its fields and its factorization.
JacobianOf(m) == [m |-> m, mixed |-> FALSE]

\* _Jtvec(m, v=None, f): the full Jacobian, built by applying self.Ainv to
\* every receiver's projection.  Returns [ok, J].
Jtvec_full(s, f) ==
  IF s.model = None \/ ~Ainv_usable(s)
    THEN [ok |-> FALSE, J |-> None]
    ELSE [ok |-> TRUE,
          J |-> Some([m |-> s.model[1],
                      mixed |-> f.m # s.model[1] \/ s.Ainv[1].A # s.model[1]])]

\* BaseDCSimulation.getJ(m, f).  Returns [s, ok, J, cached]: cached says that
\* the Jacobian returned was held before the call.
getJ(s, m, f) ==
  IF s.Jmatrix = None
    THEN LET r0 == IF f = None THEN fields(s, Some(m))
                   ELSE [s |-> s, ok |-> TRUE, f |-> f]
         IN IF ~r0.ok THEN [s |-> r0.s, ok |-> FALSE, J |-> None, cached |-> FALSE]
            ELSE LET jt == Jtvec_full(r0.s, r0.f[1])
                 IN IF ~jt.ok
                      THEN [s |-> r0.s, ok |-> FALSE, J |-> None, cached |-> FALSE]
                      ELSE [s |-> [r0.s EXCEPT !.Jmatrix = jt.J], ok |-> TRUE,
                            J |-> jt.J, cached |-> FALSE]
    ELSE [s |-> s, ok |-> TRUE, J |-> s.Jmatrix, cached |-> TRUE]

\* getJtJdiag, lines 84-87: the row weights, W.diagonal() ** 2 or ones.
RowWeights(W) ==
  IF W = None THEN [i \in 1..NData |-> 1]
  ELSE [i \in 1..NData |-> W[1][i] * W[1][i]]

\* getJtJdiag, lines 89-91: diag += W[i] * (J[i] * J[i]) over the rows 1..n.
RECURSIVE AccumulateDiag(_, _, _)
AccumulateDiag(J, Wd, n) ==
  IF n = 0 THEN [k \in 1..NParam |-> 0]
  ELSE LET d == AccumulateDiag(J, Wd, n - 1)
       IN [k \in 1..NParam |-> d[k] + Wd[n] * (Jentry(J, n, k) * Jentry(J, n, k))]

\* BaseDCSimulation.getJtJdiag(m, W).  Returns [s, ok, g, cached]: cached says
\* that the diagonal, or the Jacobian it was built from, was held before the call.
getJtJdiag(s, m, W) ==
  IF s.gtgdiag = None
    THEN LET g == getJ(s, m, None)
         IN IF ~g.ok THEN [s |-> g.s, ok |-> FALSE, g |-> None, cached |-> FALSE]
            ELSE LET d == [J |-> g.J[1], W |-> W,
                           diag |-> AccumulateDiag(g.J[1], RowWeights(W), NData)]
                 IN [s |-> [g.s EXCEPT !.gtgdiag = Some(d)], ok |-> TRUE,
                     g |-> Some(d), cached |-> g.cached]
    ELSE [s |-> s, ok |-> TRUE, g |-> s.gtgdiag, cached |-> TRUE]

\* Jvec, lines 115-120, and _Jtvec, line 181: the products with self.Ainv.
\* Returns [s, ok, J, cached, A]: A is the factorization applied.
apply_Ainv(s) ==
  IF s.model = None \/ ~Ainv_usable(s)
    THEN [s |-> s, ok |-> FALSE, J |-> None, cached |-> FALSE, A |-> None]
    ELSE [s |-> s, ok |-> TRUE, J |-> None, cached |-> FALSE, A |-> s.Ainv]

Failed(s) ==
  [s |-> s, ok |-> FALSE, J |-> None, cached |-> FALSE, A |-> None]

FromJ(g) ==
  [s |-> g.s, ok |-> g.ok, J |-> g.J, cached |-> g.cached, A |-> None]

\* BaseDCSimulation.Jvec(m, v, f).
Jvec(s, m, f) ==
  LET r0 == IF f = None THEN fields(s, Some(m)) ELSE [s |-> s, ok |-> TRUE, f |-> f]
  IN IF ~r0.ok THEN Failed(r0.s)
     ELSE IF storeJ THEN FromJ(getJ(r0.s, m, r0.f))
     ELSE apply_Ainv(set_model(r0.s, m))

\* BaseDCSimulation.Jtvec(m, v, f).
Jtvec(s, m, f) ==
  LET r0 == IF f = None THEN fields(s, Some(m)) ELSE [s |-> s, ok |-> TRUE, f |-> f]
  IN IF ~r0.ok THEN Failed(r0.s)
     ELSE LET s1 == set_model(r0.s, m)
          IN IF storeJ THEN FromJ(getJ(s1, m, r0.f))
             ELSE apply_Ainv(s1)

\* The base class's dpred(m, f): the fields of m (of self.model when m is
\* None) unless f is given, then every receiver's eval.  Returns [s, ok].
base_dpred(s, m, f) ==
  IF f # None THEN [s |-> s, ok |-> TRUE]
  ELSE LET r == fields(s, IF m = None THEN s.model ELSE m)
       IN [s |-> r.s, ok |-> r.ok]

\* BaseDCSimulation.dpred(m, f).  Returns [s, ok].
dpred(s, m, f) ==
  LET saved == s.survey
      s1 == IF mini_survey THEN [s EXCEPT !.survey = "mini"] ELSE s
      r == base_dpred(s1, m, f)
  IN IF ~r.ok THEN r
     ELSE [s |-> IF mini_survey THEN [r.s EXCEPT !.survey = saved] ELSE r.s,
           ok |-> TRUE]

\* ------------------------------------------------ the simulation's calls
NoCall ==
  [op |-> "none", m |-> None, W |-> None, ok |-> TRUE, cached |-> FALSE,
   J |-> None, A |-> None, g |-> None]

Store(s) ==
  /\ model' = s.model
  /\ Ainv' = s.Ainv
  /\ nLive' = s.nLive
  /\ Jmatrix' = s.Jmatrix
  /\ gtgdiag' = s.gtgdiag
  /\ survey' = s.survey
  /\ UNCHANGED <<storeJ, mini_survey, miniVars, walkVars, matVars>>

\* The fields objects a caller can hold: None, or one fields() has returned.
FieldsArgs == {None} \cup {Some(f) : f \in made}

\* sim.model = m
SetModel ==
  \E m \in AllModels :
    /\ Store(set_model(Self, m))
    /\ UNCHANGED made
    /\ ret' = [NoCall EXCEPT !.op = "model"]

\* sim.fields(m)
Fields ==
  \E m \in {None} \cup {Some(x) : x \in AllModels} :
    LET r == fields(Self, m)
    IN /\ Store(r.s)
       /\ made' = IF r.ok THEN made \cup {r.f[1]} ELSE made
       /\ ret' = [NoCall EXCEPT !.op = "fields", !.ok = r.ok]

\* sim.getJ(m, f)
GetJ ==
  \E m \in AllModels, f \in FieldsArgs :
    LET r == getJ(Self, m, f)
    IN /\ Store(r.s)
       /\ UNCHANGED made
       /\ ret' = [NoCall EXCEPT !.op = "getJ", !.m = Some(m), !.ok = r.ok,
                                !.cached = r.cached, !.J = r.J]

\* sim.getJtJdiag(m, W)
GetJtJdiag ==
  \E m \in AllModels, W \in {None} \cup {Some(w) : w \in Weights} :
    LET r == getJtJdiag(Self, m, W)
    IN /\ Store(r.s)
       /\ UNCHANGED made
       /\ ret' = [NoCall EXCEPT !.op = "getJtJdiag", !.m = Some(m), !.W = W, !.ok = r.ok,
                                !.cached = r.cached, !.g = r.g]

\* sim.Jvec(m, v, f)
JvecCall ==
  \E m \in AllModels, f \in FieldsArgs :
    LET r == Jvec(Self, m, f)
    IN /\ Store(r.s)
       /\ UNCHANGED made
       /\ ret' = [NoCall EXCEPT !.op = "Jvec", !.m = Some(m), !.ok = r.ok,
                                !.cached = r.cached, !.J = r.J, !.A = r.A]

\* sim.Jtvec(m, v, f)
JtvecCall ==
  \E m \in AllModels, f \in FieldsArgs :
    LET r == Jtvec(Self, m, f)
    IN /\ Store(r.s)
       /\ UNCHANGED made
       /\ ret' = [NoCall EXCEPT !.op = "Jtvec", !.m = Some(m), !.ok = r.ok,
                                !.cached = r.cached, !.J = r.J, !.A = r.A]

\* sim.dpred(m, f); m is not read when f is given.
DpredArgs ==
  {<<m, None>> : m \in {None} \cup {Some(x) : x \in AllModels}}
    \cup {<<None, f>> : f \in FieldsArgs}

Dpred ==
  \E a \in DpredArgs :
    LET r == dpred(Self, a[1], a[2])
    IN /\ Store(r.s)
       /\ UNCHANGED made
       /\ ret' = [NoCall EXCEPT !.op = "dpred", !.ok = r.ok]

\* The other parts of the module at rest.
MiniIdle ==
  /\ invs = <<>> /\ dipoles = <<>> /\ nMini = 0 /\ arg = <<>> /\ out = <<>>
  /\ pc = "idle"

WalkIdle ==
  /\ source_list = <<>> /\ mini_source_list = None
  /\ JvBlocks = <<>> /\ JtBlocks = <<>>

MatIdle ==
  /\ formulation = "none" /\ bc_type = "none" /\ Aprod = <<>> /\ Amat = <<>>

SimRest ==
  /\ model = None /\ Ainv = None /\ nLive = 0 /\ Jmatrix = None /\ gtgdiag = None
  /\ survey = "original" /\ made = {} /\ ret = NoCall

\* A simulation as constructed: class attributes Ainv, _Jmatrix, gtgdiag None,
\* no model, storeJ and miniaturize as the caller chose.
Init ==
  /\ model = None /\ Ainv = None /\ nLive = 0 /\ Jmatrix = None /\ gtgdiag = None
  /\ storeJ \in BOOLEAN
  /\ mini_survey \in BOOLEAN
  /\ survey = "original"
  /\ made = {}
  /\ ret = NoCall
  /\ MiniIdle /\ WalkIdle /\ MatIdle

Next ==
  \/ SetModel
  \/ Fields
  \/ GetJ
  \/ GetJtJdiag
  \/ JvecCall
  \/ JtvecCall
  \/ Dpred

Spec == Init /\ [][Next]_vars

\* ------------------------------------------- the mini-survey transforms
\* _dipoles = <<dip0, dip1>>: per original datum, whether its N electrode and
\* its B electrode exist.  _invs = <<AM, AN, BM, BN>>: 0-based indices into the
\* reduced data; AN has one entry per datum with dip0, BM one per datum with
\* dip1, BN one per datum with both.  nMini is self._mini_survey.nD.
MaxND == 2
MiniSizes == {1, 2}
Vals == {-1, 0, 2}
Vec(n) == [1..n -> Vals]

\* The number of True entries among mask[1..i]: the position of datum i in a
\* boolean-mask selection.
RECURSIVE Rank(_, _)
Rank(mask, i) ==
  IF i = 0 THEN 0 ELSE Rank(mask, i - 1) + (IF mask[i] THEN 1 ELSE 0)

Both(d) == [i \in 1..Len(d[1]) |-> d[1][i] /\ d[2][i]]

\* d[idx] read one entry too far (wrapping around).
Take_off_by_one(d, idx) == [k \in 1..Len(idx) |-> d[((idx[k] + 1) % Len(d)) + 1]]

\* d[idx]: fancy indexing, a new array.
Take(d, idx) == [k \in 1..Len(idx) |-> d[idx[k] + 1]]

\* v[mask]: the entries of v where mask is True, in order.
RECURSIVE Masked(_, _, _)
Masked(v, mask, n) ==
  IF n = 0 THEN <<>>
  ELSE IF mask[n] THEN Append(Masked(v, mask, n - 1), v[n])
       ELSE Masked(v, mask, n - 1)

\* out[mask] += vals whatever the sign.
MaskedAdd_unsigned(o, mask, vals, sign) ==
  [i \in 1..Len(o) |-> IF mask[i] THEN o[i] + vals[Rank(mask, i)] ELSE o[i]]

\* out[mask] += sign * vals
MaskedAdd(o, mask, vals, sign) ==
  [i \in 1..Len(o) |-> IF mask[i] THEN o[i] + sign * vals[Rank(mask, i)] ELSE o[i]]

\* np.add.at / np.subtract.at (out, idx, vals): unbuffered, one entry after the
\* other, so that repeated indices accumulate.
RECURSIVE ufunc_at(_, _, _, _, _)
ufunc_at(o, idx, vals, sign, n) ==
  IF n = 0 THEN o
  ELSE LET p == ufunc_at(o, idx, vals, sign, n - 1)
       IN [p EXCEPT ![idx[n] + 1] = @ + sign * vals[n]]

\* out[idx] += vals as a buffered indexed assignment: the last write wins.
ufunc_at_buffered(o, idx, vals, sign, n) ==
  [j \in 1..Len(o) |->
     IF \E k \in 1..n : idx[k] + 1 = j
       THEN o[j] + sign * vals[CHOOSE k \in 1..n :
                                  idx[k] + 1 = j /\ \A l \in (k + 1)..n : idx[l] + 1 # j]
       ELSE o[j]]

scatter_buffered(o, idx, vals, sign) == ufunc_at_buffered(o, idx, vals, sign, Len(idx))

\* Lines 250-253: each term of the transpose is scattered with ufunc.at.
scatter(o, idx, vals, sign) == ufunc_at(o, idx, vals, sign, Len(idx))

\* BaseDCSimulation._mini_survey_data(d_mini).  Returns [out, d_mini].
mini_survey_data(d_mini) ==
  IF mini_survey
    THEN LET o0 == Take(d_mini, invs[1])
             o1 == MaskedAdd(o0, dipoles[1], Take(d_mini, invs[2]), -1)
             o2 == MaskedAdd(o1, dipoles[2], Take(d_mini, invs[3]), -1)
             o3 == MaskedAdd(o2, Both(dipoles), Take(d_mini, invs[4]), 1)
         IN [out |-> o3, d_mini |-> d_mini]
    ELSE [out |-> d_mini, d_mini |-> d_mini]

\* BaseDCSimulation._mini_survey_dataT(v).
mini_survey_dataT(v) ==
  IF mini_survey
    THEN LET n == Len(v)
             z == [j \in 1..nMini |-> 0]
             o0 == scatter(z, invs[1], v, 1)
             o1 == scatter(o0, invs[2], Masked(v, dipoles[1], n), -1)
             o2 == scatter(o1, invs[3], Masked(v, dipoles[2], n), -1)
             o3 == scatter(o2, invs[4], Masked(v, Both(dipoles), n), 1)
         IN o3
    ELSE v

IndexSeqs(len, k) == [1..len -> 0..(k - 1)]

\* The number of original data of the mini-survey's index structure.
ND == Len(dipoles[1])

\* A simulation with or without a mini-survey, any index structure over at
\* most MaxND original data, and a data vector to transform.
InitMini ==
  /\ SimRest /\ storeJ = FALSE /\ WalkIdle /\ MatIdle
  /\ mini_survey \in BOOLEAN
  /\ \E n \in 1..MaxND :
       IF mini_survey
         THEN \E k \in MiniSizes, d0 \in [1..n -> BOOLEAN], d1 \in [1..n -> BOOLEAN] :
                /\ nMini = k
                /\ dipoles = <<d0, d1>>
                /\ invs \in {<<am, an, bm, bn>> :
                               am \in IndexSeqs(n, k),
                               an \in IndexSeqs(Rank(d0, n), k),
                               bm \in IndexSeqs(Rank(d1, n), k),
                               bn \in IndexSeqs(Rank(Both(<<d0, d1>>), n), k)}
                /\ arg \in Vec(n) \cup Vec(k)
         ELSE /\ nMini = 0 /\ dipoles = <<>> /\ invs = <<>>
              /\ arg \in Vec(n)
  /\ out = <<>>
  /\ pc = "ready"

MiniFrame == UNCHANGED <<simVars, walkVars, matVars, invs, dipoles, nMini>>

\* out = sim._mini_survey_data(arg)
Expand ==
  /\ pc = "ready"
  /\ mini_survey => Len(arg) = nMini
  /\ LET r == mini_survey_data(arg)
     IN out' = r.out /\ arg' = r.d_mini
  /\ pc' = "expanded"
  /\ MiniFrame

\* out = sim._mini_survey_dataT(arg)
Reduce ==
  /\ pc = "ready"
  /\ mini_survey => Len(arg) = ND
  /\ out' = mini_survey_dataT(arg)
  /\ pc' = "reduced"
  /\ UNCHANGED arg
  /\ MiniFrame

\* out = sim._mini_survey_dataT(sim._mini_survey_data(arg))
RoundTrip ==
  /\ pc = "ready"
  /\ mini_survey => Len(arg) = nMini
  /\ out' = mini_survey_dataT(mini_survey_data(arg).out)
  /\ pc' = "roundtrip"
  /\ UNCHANGED arg
  /\ MiniFrame

NextMini ==
  \/ Expand
  \/ Reduce
  \/ RoundTrip

SpecMini == InitMini /\ [][NextMini]_vars

\* -------------------------------------------- properties of the transforms
RECURSIVE DotTo(_, _, _)
DotTo(a, b, n) == IF n = 0 THEN 0 ELSE DotTo(a, b, n - 1) + a[n] * b[n]

Dot(a, b) == DotTo(a, b, Len(a))

\* The position of datum i among the data whose flag is set.
PosIn(mask, i) == Cardinality({j \in 1..i : mask[j]})

\* The reduced-data indices of datum i's four terms (AN, BM, BN where they exist).
AMof(i) == invs[1][i]
ANof(i) == invs[2][PosIn(dipoles[1], i)]
BMof(i) == invs[3][PosIn(dipoles[2], i)]
BNof(i) == invs[4][PosIn([j \in 1..ND |-> dipoles[1][j] /\ dipoles[2][j]], i)]

\* C4: with the mini-survey active, _mini_survey_dataT is the exact transpose
\* of _mini_survey_data: <expand(x), v> = <x, reduce(v)> for every reduced
\* vector x and full vector v, whatever the index structure.
C4_Transpose ==
  /\ (pc = "reduced" /\ mini_survey)
       => \A x \in Vec(nMini) : Dot(mini_survey_data(x).out, arg) = Dot(x, out)
  /\ (pc = "expanded" /\ mini_survey)
       => \A v \in Vec(ND) : Dot(out, v) = Dot(arg, mini_survey_dataT(v))

\* A reduction over a structure in which two original data share a reduced
\* index and the first datum has all four terms.
C4_Witness ==
  /\ pc = "reduced" /\ mini_survey /\ ND = 2
  /\ invs[1][1] = invs[1][2]
  /\ dipoles[1][1] /\ dipoles[2][1]
  /\ arg[1] # 0 /\ arg[2] # 0

\* The four-term combination of datum i of the reduced vector d.
FourTerms(d, i) ==
  d[AMof(i) + 1]
    - (IF dipoles[1][i] THEN d[ANof(i) + 1] ELSE 0)
    - (IF dipoles[2][i] THEN d[BMof(i) + 1] ELSE 0)
    + (IF dipoles[1][i] /\ dipoles[2][i] THEN d[BNof(i) + 1] ELSE 0)

\* C5: _mini_survey_data returns, for each original datum i,
\* d[AM_i] - d[AN_i] - d[BM_i] + d[BN_i] with the AN term only when N exists,
\* the BM term only when B exists and the BN term only when both exist; the
\* input is not modified; with no mini-survey the input is returned unchanged.
C5_Expand ==
  [][Expand =>
       /\ arg' = arg
       /\ IF mini_survey
            THEN /\ Len(out') = ND
                 /\ \A i \in 1..ND : out'[i] = FourTerms(arg, i)
            ELSE out' = arg]_vars

\* An expansion of two data, one with all four terms and one with AM alone.
C5_Witness ==
  /\ pc = "expanded" /\ mini_survey /\ ND = 2 /\ nMini = 2
  /\ dipoles[1][1] /\ dipoles[2][1]
  /\ ~dipoles[1][2] /\ ~dipoles[2][2]
  /\ arg[1] # arg[2]

\* An index structure as the reducer builds it from unique pole pairs: every
\* reduced datum is referenced, and the terms of one datum are distinct pairs.
TermsOf(i) ==
  {AMof(i)}
    \cup (IF dipoles[1][i] THEN {ANof(i)} ELSE {})
    \cup (IF dipoles[2][i] THEN {BMof(i)} ELSE {})
    \cup (IF dipoles[1][i] /\ dipoles[2][i] THEN {BNof(i)} ELSE {})

NTerms(i) ==
  1 + (IF dipoles[1][i] THEN 1 ELSE 0) + (IF dipoles[2][i] THEN 1 ELSE 0)
    + (IF dipoles[1][i] /\ dipoles[2][i] THEN 1 ELSE 0)

ProducedByReducer ==
  /\ \A k \in 0..(nMini - 1) : \E i \in 1..ND : k \in TermsOf(i)
  /\ \A i \in 1..ND : Cardinality(TermsOf(i)) = NTerms(i)

\* Every original datum is a pole-pole datum and every reduced datum is
\* referenced by exactly one of them.
PolePoleBijection ==
  /\ ND = nMini
  /\ \A i \in 1..ND : ~dipoles[1][i] /\ ~dipoles[2][i]
  /\ {invs[1][i] : i \in 1..ND} = 0..(nMini - 1)

\* C7 as stated: _mini_survey_dataT(_mini_survey_data(x)) = x for any reduced
\* vector x and any index structure the reducer produces.
C7_RoundTrip ==
  (pc = "roundtrip" /\ mini_survey /\ ProducedByReducer) => out = arg

\* C7 amended: the round trip returns x when no mini-survey is active, and when
\* every original datum is pole-pole and the reduced data are referenced one to
\* one.
C7_RoundTripAmended ==
  (pc = "roundtrip" /\ (mini_survey => PolePoleBijection)) => out = arg

\* A round trip through a permuting pole-pole structure.
C7_Witness ==
  /\ pc = "roundtrip" /\ mini_survey /\ PolePoleBijection
  /\ nMini = 2 /\ invs[1] = <<1, 0>>
  /\ arg[1] # arg[2]

\* -------------------------------- the survey traversal of Jvec and _Jtvec
\* A survey's source_list is a sequence of sources; a source is its
\* receiver_list, a sequence of receivers; a receiver is its datum count nD.
MaxSrc == 2
RxCounts == {1, 2}
RxNDs == {1, 2}
ReceiverLists == UNION {[1..c -> RxNDs] : c \in RxCounts}
SourceLists == UNION {[1..n -> ReceiverLists] : n \in 1..MaxSrc}
\* The reduced survey holds pole sources with one pole receiver each.
MiniSourceLists == UNION {[1..n -> [1..1 -> RxNDs]] : n \in 1..MaxSrc}

\* Jvec, lines 110-113: the survey traversed, as [name, source_list].
Jvec_survey ==
  IF mini_source_list # None
    THEN [name |-> "mini", source_list |-> mini_source_list[1]]
    ELSE [name |-> "original", source_list |-> source_list]

\* _Jtvec, lines 150-153: the survey traversed.
Jtvec_survey ==
  IF mini_source_list # None
    THEN [name |-> "mini", source_list |-> mini_source_list[1]]
    ELSE [name |-> "original", source_list |-> source_list]

\* for source in survey.source_list: for rx in source.receiver_list: the
\* (source, receiver) positions in the order the two loops visit them.
RECURSIVE Traverse(_, _)
Traverse(sl, s) ==
  IF s = 0 THEN <<>>
  ELSE Traverse(sl, s - 1) \o [r \in 1..Len(sl[s]) |-> <<s, r>>]

\* Jvec, lines 115-125: one block of rx.nD data appended per receiver, then
\* np.hstack: block n starts where block n - 1 stops.
RECURSIVE hstack(_, _, _)
hstack(sv, pairs, n) ==
  IF n = 0 THEN <<>>
  ELSE LET prev == hstack(sv, pairs, n - 1)
           at == IF n = 1 THEN 0 ELSE prev[n - 1].stop
           nD == sv.source_list[pairs[n][1]][pairs[n][2]]
       IN Append(prev, [survey |-> sv.name, src |-> pairs[n][1], rx |-> pairs[n][2],
                        start |-> at, stop |-> at + nD])

Jvec_blocks ==
  LET sv == Jvec_survey
      pairs == Traverse(sv.source_list, Len(sv.source_list))
  IN hstack(sv, pairs, Len(pairs))

\* _Jtvec, line 194: istrt += rx.nD
advance_by_one(istrt, nD) == istrt + 1

advance(istrt, nD) == istrt + nD

\* _Jtvec with v=None, lines 163-194: the columns [istrt, iend) written per
\* receiver (the single column istrt when rx.nD == 1).  Returns [cols, istrt].
RECURSIVE Jtvec_loop(_, _, _)
Jtvec_loop(sv, pairs, n) ==
  IF n = 0 THEN [cols |-> <<>>, istrt |-> 0]
  ELSE LET prev == Jtvec_loop(sv, pairs, n - 1)
           nD == sv.source_list[pairs[n][1]][pairs[n][2]]
           iend == prev.istrt + nD
           blk == [survey |-> sv.name, src |-> pairs[n][1], rx |-> pairs[n][2],
                   start |-> prev.istrt,
                   stop |-> IF nD = 1 THEN prev.istrt + 1 ELSE iend]
       IN [cols |-> Append(prev.cols, blk), istrt |-> advance(prev.istrt, nD)]

Jtvec_blocks ==
  LET sv == Jtvec_survey
      pairs == Traverse(sv.source_list, Len(sv.source_list))
  IN Jtvec_loop(sv, pairs, Len(pairs)).cols

\* survey.nD: the data of all receivers of all sources.
RECURSIVE SumSeq(_, _)
SumSeq(q, n) == IF n = 0 THEN 0 ELSE SumSeq(q, n - 1) + q[n]

RECURSIVE survey_nD(_, _)
survey_nD(sl, s) ==
  IF s = 0 THEN 0 ELSE survey_nD(sl, s - 1) + SumSeq(sl[s], Len(sl[s]))

InitWalk ==
  /\ SimRest /\ storeJ = FALSE /\ mini_survey = FALSE /\ MiniIdle /\ MatIdle
  /\ source_list \in SourceLists
  /\ mini_source_list \in {None} \cup {Some(sl) : sl \in MiniSourceLists}
  /\ JvBlocks = <<>>
  /\ JtBlocks = <<>>

\* sim.Jvec(m, v, f) with storeJ false: the data blocks it stacks.
WalkJvec ==
  /\ JvBlocks = <<>>
  /\ JvBlocks' = Jvec_blocks
  /\ UNCHANGED <<simVars, miniVars, matVars, source_list, mini_source_list, JtBlocks>>

\* sim._Jtvec(m, v=None, f): the column blocks it writes.
WalkJtvec ==
  /\ JtBlocks = <<>>
  /\ JtBlocks' = Jtvec_blocks
  /\ UNCHANGED <<simVars, miniVars, matVars, source_list, mini_source_list, JvBlocks>>

NextWalk ==
  \/ WalkJvec
  \/ WalkJtvec

SpecWalk == InitWalk /\ [][NextWalk]_vars

\* The survey both traversals are to use.
ActiveSourceList ==
  IF mini_source_list # None THEN mini_source_list[1] ELSE source_list

Columns(b) == b.start..(b.stop - 1)

\* C8: Jvec and _Jtvec(v=None) traverse the same survey (the mini-survey if
\* there is one) sources-then-receivers in declared order: the i-th data block
\* of Jvec and the i-th column block of the Jacobian transpose belong to the
\* same (source, receiver) pair and the same positions, and the column blocks
\* are pairwise disjoint, contiguous and cover columns 0..survey.nD-1.
C8_SameOrderAndCover ==
  (JvBlocks # <<>> /\ JtBlocks # <<>>) =>
    LET n == Len(JtBlocks)
        nD == survey_nD(ActiveSourceList, Len(ActiveSourceList))
    IN /\ Len(JvBlocks) = n
       /\ \A i \in 1..n : JvBlocks[i] = JtBlocks[i]
       /\ \A i \in 1..n :
            JtBlocks[i].survey = (IF mini_source_list # None THEN "mini" ELSE "original")
       /\ \A i, j \in 1..n :
            i < j => (JtBlocks[i].src < JtBlocks[j].src
                      \/ (JtBlocks[i].src = JtBlocks[j].src /\ JtBlocks[i].rx < JtBlocks[j].rx))
       /\ \A i, j \in 1..n : i # j => Columns(JtBlocks[i]) \cap Columns(JtBlocks[j]) = {}
       /\ \A i \in 1..(n - 1) : JtBlocks[i + 1].start = JtBlocks[i].stop
       /\ UNION {Columns(JtBlocks[i]) : i \in 1..n} = 0..(nD - 1)

\* Both traversals done over a mini-survey of two sources, one receiver of
\* which has two data.
C8_Witness ==
  /\ JvBlocks # <<>> /\ JtBlocks # <<>>
  /\ mini_source_list # None
  /\ Len(JtBlocks) = 2
  /\ \E i \in 1..2 : JtBlocks[i].stop - JtBlocks[i].start = 2

\* ------------------------------------------------------------------ getA
\* The operator product (D @ MfRhoI @ G, or Grad.T @ MeSigma @ Grad) is a
\* MatN x MatN matrix, a sequence of rows.
MatN == 2
Matrices == [1..MatN -> [1..MatN -> Vals]]

\* sp.sparse.find(A[0, :]): the columns of the nonzero entries of row 0.
find_first_column(A) == {i \in 1..MatN : A[i][1] # 0}

find_first_row(A) == {j \in 1..MatN : A[1][j] # 0}

\* Lines 291-294 and 493-496: zero the entries found, then A[0, 0] = 1.
remove_nullspace(A) ==
  LET J == find_first_row(A)
      zeroed == [A EXCEPT ![1] = [j \in 1..MatN |-> IF j \in J THEN 0 ELSE A[1][j]]]
  IN [zeroed EXCEPT ![1][1] = 1]

\* Simulation3DCellCentered.getA
getA_CC(A, bc) == IF bc = "Neumann" THEN remove_nullspace(A) ELSE A

\* Simulation3DNodal.getA
getA_Nodal(A) == remove_nullspace(A)

InitMat ==
  /\ SimRest /\ storeJ = FALSE /\ mini_survey = FALSE /\ MiniIdle /\ WalkIdle
  /\ \/ formulation = "HJ" /\ bc_type \in {"Dirichlet", "Neumann", "Mixed"}
     \/ formulation = "EB" /\ bc_type = "none"
  /\ Aprod \in Matrices
  /\ Amat = <<>>

\* A = sim.getA()
GetA ==
  /\ Amat = <<>>
  /\ Amat' = IF formulation = "HJ" THEN getA_CC(Aprod, bc_type) ELSE getA_Nodal(Aprod)
  /\ UNCHANGED <<simVars, miniVars, walkVars, formulation, bc_type, Aprod>>

NextMat == GetA

SpecMat == InitMat /\ [][NextMat]_vars

\* C9: getA of the nodal formulation, and of the cell-centered one when
\* bc_type is Neumann, returns a matrix whose row 0 is the unit row and whose
\* other rows are those of the operator product; for cell-centered Dirichlet
\* and Mixed the operator product is returned with no entry changed.
C9_NullspaceRow ==
  Amat # <<>> =>
    IF formulation = "EB" \/ bc_type = "Neumann"
      THEN /\ \A j \in 1..MatN : Amat[1][j] = (IF j = 1 THEN 1 ELSE 0)
           /\ \A i \in 2..MatN : Amat[i] = Aprod[i]
      ELSE Amat = Aprod

\* getA of a cell-centered Neumann problem whose product has a zero pivot and
\* a nonzero off-diagonal entry in row 0.
C9_Witness ==
  /\ Amat # <<>>
  /\ formulation = "HJ" /\ bc_type = "Neumann"
  /\ Aprod[1][1] = 0 /\ Aprod[1][2] # 0 /\ Aprod[2][1] = 0

\* -------------------------------------------- properties of the simulation
\* C1: at most one factorization is live at any moment, and it is the one the
\* instance holds: when fields() creates a factorization, the one held before
\* has been released.
C1_OneLiveFactorization ==
  /\ nLive <= 1
  /\ nLive = 1 <=> (Ainv # None /\ ~Ainv[1].clean)

\* fields() has built a factorization for a second model and holds it live.
C1_Witness ==
  /\ nLive = 1
  /\ Cardinality(made) >= 2
  /\ ret.op = "fields" /\ ret.ok

\* The Jacobian behind the result of the last call.
UsedJ == IF ret.op = "getJtJdiag" THEN ret.g[1].J ELSE ret.J[1]

\* C2: a cached Jacobian or JtJ diagonal computed for model m1 is never used
\* to produce the result of a call whose model argument is m2 # m1; stated
\* for the calls whose model argument is a regular model.
C2_NoStaleCache ==
  (/\ ret.op \in {"getJ", "Jvec", "Jtvec", "getJtJdiag"}
   /\ ret.ok
   /\ ret.cached
   /\ ret.m[1] \in Models)
    => UsedJ.m = ret.m[1]

\* C3: whenever Jvec or Jtvec applies the cached factorization, it was built
\* by fields() from the system matrix of the simulation's current model;
\* stated for the calls whose model argument is a regular model.
C3_AinvOfCurrentModel ==
  (ret.op \in {"Jvec", "Jtvec"} /\ ret.ok /\ ret.A # None /\ ret.m[1] \in Models)
    => ret.A[1].A = model[1]

\* The diagonal entry W[i, i] of the weighting matrix of a call (1 when W is None).
Wii(W, i) == IF W = None THEN 1 ELSE W[1][i]

\* sum over the data rows 1..n of W[i,i]^2 * J[i,k]^2
RECURSIVE JtJEntry(_, _, _, _)
JtJEntry(J, W, k, n) ==
  IF n = 0 THEN 0
  ELSE JtJEntry(J, W, k, n - 1)
         + (Wii(W, n) * Wii(W, n)) * (Jentry(J, n, k) * Jentry(J, n, k))

\* C6: every call getJtJdiag(m, W) returns the vector whose k-th entry is the
\* sum over the data rows i of W[i,i]^2 * J[i,k]^2 for the W of that call;
\* stated for the calls whose Jacobian is that of m.
C6_JtJdiagOfThisW ==
  (/\ ret.op = "getJtJdiag"
   /\ ret.ok
   /\ ret.g[1].J = JacobianOf(ret.m[1]))
    => ret.g[1].diag = [k \in 1..NParam |-> JtJEntry(JacobianOf(ret.m[1]), ret.W, k, NData)]

\* C10: with the mini-survey active, self.survey is the original survey
\* whenever dpred is not executing, whether dpred returned or raised.
C10_SurveyRestored ==
  mini_survey => survey = "original"
====
